---- MODULE Spec2Model ----
(***************************************************************************)
(* graft: git worktree + zellij session orchestrator (src/src/main.rs).    *)
(*                                                                         *)
(* The program is a command-line tool: one invocation runs one operation   *)
(* (open <branch>, rm <branch>, ls) as a straight line of calls to git and *)
(* zellij.  The state that survives an invocation is the state of the two  *)
(* external tools and of the filesystem; the model keeps it in the         *)
(* variables localTip, remoteTip, registry, fs and sessions.  Every call   *)
(* of an external tool is one step with one of three outcomes:             *)
(*   "ok"    the tool ran and returned a success status (possible only    *)
(*           where the tool can do what was asked; its effect is applied), *)
(*   "fail"  the tool ran and returned a non-success status (no effect),   *)
(*   "exec"  the tool could not be executed at all (no effect).            *)
(* Names (branches, sessions) are sequences of one-character strings, so   *)
(* that prefixing, stripping and the '/' -> '-' replacement are computed.  *)
(* Paths are sequences of components below the repository root.            *)
(***************************************************************************)
EXTENDS Naturals, Sequences, FiniteSets, TLC

VARIABLES
    localTip,   \* refs/heads/<b>: branch -> commit, or NoRef
    remoteTip,  \* heads of the remote "origin": branch -> commit, or NoRef
    registry,   \* branches whose derived path is in git's worktree registry
    fs,         \* path below the repository root -> "none" | "dir" | "file"
    sessions,   \* names in zellij's session registry
    pc,         \* position of the running invocation ("idle" between two)
    op,         \* the running invocation's command line
    loc,        \* the running invocation's local variables
    log,        \* external tool calls made by the running invocation
    result,     \* "none" while running, then "ok" (exit 0) or "err" (exit 1)
    pre,        \* the tools' state when the running invocation started
    nops,       \* invocations started so far
    next_ext    \* out-of-band changes made so far

vars == <<localTip, remoteTip, registry, fs, sessions, pc, op, loc, log,
          result, pre, nops, next_ext>>

world == <<localTip, remoteTip, registry, fs, sessions>>

----------------------------------------------------------------------------
\* Bounds

\* invocations of the program in one behaviour
MaxOps == 2

\* out-of-band changes (made by the user with git, zellij or the shell)
MaxExt == 1

----------------------------------------------------------------------------
\* Constants of the program

SESSION_PREFIX == <<"w", "t", "-">>

ZELLIJ_LAYOUT == "worktree"

REMOTE == "origin"

\* branch names of the model: a hierarchical one, and the flat name it
\* collides with
BrAB == <<"a", "/", "b">>
BrA_B == <<"a", "-", "b">>
Branches == {BrAB, BrA_B}

NoRef == "none"
HeadCommit == "head"
RemoteCommit == "remote"

Outcomes == {"ok", "fail", "exec"}

----------------------------------------------------------------------------
\* Naming / path policy

\* str::replace(from, to) for one-character patterns
Replace(s, from, to) == [i \in 1..Len(s) |-> IF s[i] = from THEN to ELSE s[i]]

\* str::starts_with
StartsWith(s, prefix) ==
    /\ Len(s) >= Len(prefix)
    /\ SubSeq(s, 1, Len(prefix)) = prefix

\* &s[SESSION_PREFIX.len()..]
StripPrefix(s) == SubSeq(s, Len(SESSION_PREFIX) + 1, Len(s))

session_name_noreplace(branch) == SESSION_PREFIX \o branch

session_name(branch) == SESSION_PREFIX \o Replace(branch, "/", "-")

\* Path components of a relative path string: PathBuf::join(branch) descends
\* one directory per '/'-separated component
RECURSIVE Components(_)
Components(s) ==
    IF s = <<>> THEN <<>>
    ELSE LET idx == {i \in 1..Len(s) : s[i] = "/"}
         IN IF idx = {} THEN <<s>>
            ELSE LET k == CHOOSE i \in idx : \A j \in idx : i <= j
                 IN (IF k = 1 THEN <<>> ELSE <<SubSeq(s, 1, k - 1)>>)
                    \o Components(SubSeq(s, k + 1, Len(s)))

WORKTREE_DIR == <<".", "w", "o", "r", "k", "t", "r", "e", "e", "s">>

\* git rev-parse --show-toplevel: paths are sequences of components below it
repo_root == <<>>

\* PathBuf::from(&repo_root).join(WORKTREE_DIR)
worktree_base == repo_root \o <<WORKTREE_DIR>>

\* worktree_base.join(branch)
worktree_path(branch) == worktree_base \o Components(branch)

IsPrefixPath(p, q) == Len(p) <= Len(q) /\ SubSeq(q, 1, Len(p)) = p

Paths == UNION {{SubSeq(worktree_path(b), 1, n) : n \in 0..Len(worktree_path(b))}
                : b \in Branches}

\* Path::file_name
file_name(p) == p[Len(p)]

\* Path::exists, Path::is_dir
path_exists(f, p) == f[p] # "none"
is_dir(f, p) == f[p] = "dir"

\* mkdir -p: p and every ancestor become directories
MkdirP(f, p) == [q \in Paths |-> IF IsPrefixPath(q, p) THEN "dir" ELSE f[q]]

\* rm -r: p and everything below it disappear
RmR(f, p) == [q \in Paths |-> IF IsPrefixPath(p, q) THEN "none" ELSE f[q]]

\* fs::read_dir(dir): the entries directly inside dir, or an error
read_dir_ok(f, dir) == is_dir(f, dir)
read_dir(f, dir) ==
    {q \in Paths : Len(q) = Len(dir) + 1 /\ IsPrefixPath(dir, q) /\ path_exists(f, q)}

\* names zellij may hold: the derived ones, one with the prefix that no
\* worktree of the model stands for, and one not made by this program
OrphanSession == SESSION_PREFIX \o <<"x">>
ForeignSession == <<"m", "y">>
SessionNames == {session_name(b) : b \in Branches} \cup {OrphanSession, ForeignSession}

----------------------------------------------------------------------------
\* The external tools: what a call that returns success does

\* refs/heads/<name> as git prints it
LocalRef(name) == <<"refs/heads/", name>>

\* some order in which git lists the registered worktrees
BranchOrder == <<BrAB, BrA_B>>

RECURSIVE PorcelainFrom(_, _)
PorcelainFrom(reg, i) ==
    IF i > Len(BranchOrder) THEN <<>>
    ELSE (IF BranchOrder[i] \in reg
          THEN << [key |-> "worktree", val |-> worktree_path(BranchOrder[i])],
                  [key |-> "HEAD", val |-> <<>>],
                  [key |-> "branch", val |-> LocalRef(BranchOrder[i])],
                  [key |-> "", val |-> <<>>] >>
          ELSE <<>>)
         \o PorcelainFrom(reg, i + 1)

\* git worktree list --porcelain: the main worktree (HEAD detached), then
\* one record per registered worktree
Porcelain(reg) ==
    << [key |-> "worktree", val |-> repo_root],
       [key |-> "HEAD", val |-> <<>>],
       [key |-> "detached", val |-> <<>>],
       [key |-> "", val |-> <<>>] >> \o PorcelainFrom(reg, 1)

\* git worktree prune: drops the entries whose directory is gone
GitWorktreePrune(reg, f) == {b \in reg : is_dir(f, worktree_path(b))}

\* git worktree add <path> <branch> can succeed: the branch exists and is
\* checked out nowhere, the path is unregistered and is absent or a directory
CanWorktreeAdd(b) ==
    /\ localTip[b] # NoRef
    /\ b \notin registry
    /\ fs[worktree_path(b)] # "file"

\* git worktree remove --force <path> can succeed: the path is registered
CanWorktreeRemove(b) == b \in registry

branch_delete_unchecked(b) == localTip[b] # NoRef

\* git branch -D <branch> can succeed: the branch exists and is checked out
\* in no worktree
CanBranchDelete(b) == localTip[b] # NoRef /\ b \notin registry

\* git fetch origin <b>:<b> can succeed: the remote has the branch
CanFetch(b) == remoteTip[b] # NoRef

\* git branch <b> can succeed: no such local branch yet
CanBranchCreate(b) == localTip[b] = NoRef

May(can) == IF can THEN Outcomes ELSE {"fail", "exec"}

\* a query's exit status tells the answer
Answer(yes) == {IF yes THEN "ok" ELSE "fail", "exec"}

----------------------------------------------------------------------------
\* The invocation

NoOp == [cmd |-> "none", branch |-> <<>>, ephemeral |-> FALSE,
         delete_branch |-> FALSE, prune_worktrees |-> FALSE,
         prune_sessions |-> FALSE]

\* Cli::parse: the command lines
Commands ==
    {[NoOp EXCEPT !.cmd = "open", !.branch = b, !.ephemeral = e, !.delete_branch = d]
        : b \in Branches, e \in BOOLEAN, d \in BOOLEAN}
    \cup {[NoOp EXCEPT !.cmd = "rm", !.branch = b, !.delete_branch = d]
        : b \in Branches, d \in BOOLEAN}
    \cup {[NoOp EXCEPT !.cmd = "ls", !.prune_worktrees = w, !.prune_sessions = s]
        : w \in BOOLEAN, s \in BOOLEAN}
    \cup {[NoOp EXCEPT !.cmd = "usage"]}

InitLoc == [exists_in_git |-> FALSE, dir_exists |-> FALSE, status |-> "none",
            worktrees |-> <<>>, sessions |-> <<>>, todo |-> <<>>]

Snapshot == [localTip |-> localTip, registry |-> registry, fs |-> fs,
             sessions |-> sessions]

\* the only failure the program itself reports and goes on: a session
\* deletion that ran and returned non-zero ("failed (ignored)")
failure_logged(cmd, out) == cmd = "zellij delete-session" /\ out = "fail"

\* the process's own working directory, in which every tool call runs
\* unless the call sets another
InheritedDir == <<>>

\* one tool call: the calling function, the command line, its argument, the
\* working directory and layout it was given, its outcome, and whether the
\* program printed a warning for its failure
Entry(fn, cmd, arg, out) ==
    [fn |-> fn, cmd |-> cmd, arg |-> arg, out |-> out,
     cwd |-> InheritedDir, layout |-> "", warned |-> failure_logged(cmd, out)]

Call(fn, cmd, arg, out) == log' = Append(log, Entry(fn, cmd, arg, out))

Return(r) == pc' = "done" /\ result' = r

Continue(p) == pc' = p /\ result' = result

\* the same two, as values: where a decision sends the invocation
Goto(p) == [pc |-> p, result |-> "none"]
Exit(r) == [pc |-> "done", result |-> r]

Init ==
    /\ localTip = [b \in Branches |-> NoRef]
    /\ remoteTip = [b \in Branches |-> IF b = BrAB THEN RemoteCommit ELSE NoRef]
    /\ registry = {}
    /\ fs = [p \in Paths |-> IF p = repo_root THEN "dir" ELSE "none"]
    /\ sessions = {}
    /\ pc = "idle"
    /\ op = NoOp
    /\ loc = InitLoc
    /\ log = <<>>
    /\ result = "none"
    /\ pre = Snapshot
    /\ nops = 0
    /\ next_ext = 0

\* main: dispatch on the command line
MainDispatch(c) == IF c.cmd = "usage" THEN "done" ELSE "root"

Start ==
    /\ pc = "idle"
    /\ nops < MaxOps
    /\ \E c \in Commands :
        /\ op' = c
        /\ pc' = MainDispatch(c)
        /\ result' = IF c.cmd = "usage" THEN "err" ELSE "none"
    /\ nops' = nops + 1
    /\ loc' = InitLoc
    /\ log' = <<>>
    /\ pre' = Snapshot
    /\ UNCHANGED <<world, next_ext>>

\* the process exits; the next invocation starts from the tools' state alone
Finish ==
    /\ pc = "done"
    /\ pc' = "idle"
    /\ op' = NoOp
    /\ loc' = InitLoc
    /\ log' = <<>>
    /\ result' = "none"
    /\ pre' = Snapshot
    /\ UNCHANGED <<world, nops, next_ext>>

\* where each operation goes once the repository root is known
AfterRoot(c) ==
    CASE c.cmd = "open" -> "mkdir"
      [] c.cmd = "rm" -> "del_session"
      [] c.cmd = "ls" -> IF c.prune_worktrees THEN "ls_prune" ELSE "ls_list"

git_repo_root ==
    /\ pc = "root"
    /\ \E out \in Outcomes :
        /\ Call("git_repo_root", "git rev-parse --show-toplevel", <<>>, out)
        /\ IF out = "ok" THEN Continue(AfterRoot(op)) ELSE Return("err")
    /\ UNCHANGED <<world, op, loc, pre, nops, next_ext>>

\* fs::create_dir_all(&worktree_base)
create_dir_all ==
    /\ pc = "mkdir"
    /\ \E out \in {"ok", "fail"} :
        /\ Call("open_branch", "create_dir_all", <<>>, out)
        /\ IF out = "ok"
           THEN /\ fs' = MkdirP(fs, worktree_base)
                /\ Continue("eb_local")
           ELSE /\ fs' = fs
                /\ Return("err")
    /\ UNCHANGED <<localTip, remoteTip, registry, sessions, op, loc, pre, nops, next_ext>>

----------------------------------------------------------------------------
\* ensure_branch_exists

local_query_failure_ignored(out) ==
    CASE out = "exec" -> Goto("ew_known")
      [] out = "ok" -> Goto("ew_known")
      [] out = "fail" -> Goto("eb_remote")

\* if git_local_branch_exists(branch)? { return Ok(()) }
AfterLocalQuery(out) ==
    CASE out = "exec" -> Exit("err")
      [] out = "ok" -> Goto("ew_known")
      [] out = "fail" -> Goto("eb_remote")

git_local_branch_exists ==
    /\ pc = "eb_local"
    /\ \E out \in Answer(localTip[op.branch] # NoRef) :
        /\ Call("ensure_branch_exists", "git show-ref", op.branch, out)
        /\ pc' = AfterLocalQuery(out).pc
        /\ result' = AfterLocalQuery(out).result
    /\ UNCHANGED <<world, op, loc, pre, nops, next_ext>>

create_from_head_first(out) ==
    CASE out = "exec" -> Exit("err")
      [] out = "ok" -> Goto("eb_create")
      [] out = "fail" -> Goto("eb_create")

\* if git_remote_branch_exists(branch)? { fetch; return Ok(()) }  else create
AfterRemoteQuery(out) ==
    CASE out = "exec" -> Exit("err")
      [] out = "ok" -> Goto("eb_fetch")
      [] out = "fail" -> Goto("eb_create")

git_remote_branch_exists ==
    /\ pc = "eb_remote"
    /\ \E out \in Answer(remoteTip[op.branch] # NoRef) :
        /\ Call("ensure_branch_exists", "git ls-remote", op.branch, out)
        /\ pc' = AfterRemoteQuery(out).pc
        /\ result' = AfterRemoteQuery(out).result
    /\ UNCHANGED <<world, op, loc, pre, nops, next_ext>>

\* run_ok("git", ["fetch", REMOTE, "<branch>:<branch>"])
git_fetch ==
    /\ pc = "eb_fetch"
    /\ \E out \in May(CanFetch(op.branch)) :
        /\ Call("ensure_branch_exists", "git fetch", op.branch, out)
        /\ IF out = "ok"
           THEN /\ localTip' = [localTip EXCEPT ![op.branch] = remoteTip[op.branch]]
                /\ Continue("ew_known")
           ELSE /\ localTip' = localTip
                /\ Return("err")
    /\ UNCHANGED <<remoteTip, registry, fs, sessions, op, loc, pre, nops, next_ext>>

\* run_ok("git", ["branch", branch])
git_branch ==
    /\ pc = "eb_create"
    /\ \E out \in May(CanBranchCreate(op.branch)) :
        /\ Call("ensure_branch_exists", "git branch", op.branch, out)
        /\ IF out = "ok"
           THEN /\ localTip' = [localTip EXCEPT ![op.branch] = HeadCommit]
                /\ Continue("ew_known")
           ELSE /\ localTip' = localTip
                /\ Return("err")
    /\ UNCHANGED <<remoteTip, registry, fs, sessions, op, loc, pre, nops, next_ext>>

----------------------------------------------------------------------------
\* ensure_worktree

\* out.lines().any(|l| l.trim() == format!("worktree {}", path))
git_worktree_known(lines, path) ==
    \E i \in 1..Len(lines) : lines[i].key = "worktree" /\ lines[i].val = path

reuse_if_registered(exists_in_git, dir_exists) == exists_in_git

reuse_never(exists_in_git, dir_exists) == FALSE

reuse_if_directory(exists_in_git, dir_exists) == dir_exists

\* if exists_in_git && dir_exists { return Ok(()) }
reuse_worktree(exists_in_git, dir_exists) == exists_in_git /\ dir_exists

ew_known ==
    /\ pc = "ew_known"
    /\ \E out \in Outcomes :
        /\ Call("ensure_worktree", "git worktree list", <<>>, out)
        /\ IF out = "ok"
           THEN LET known == git_worktree_known(Porcelain(registry),
                                                worktree_path(op.branch))
                    isdir == is_dir(fs, worktree_path(op.branch))
                IN /\ loc' = [loc EXCEPT !.exists_in_git = known, !.dir_exists = isdir]
                   /\ Continue(IF reuse_worktree(known, isdir)
                               THEN "lz_probe" ELSE "ew_prune")
           ELSE /\ loc' = loc
                /\ Return("err")
    /\ UNCHANGED <<world, op, pre, nops, next_ext>>

remove_always(exists_in_git, dir_exists) == TRUE

\* if exists_in_git && !dir_exists { let _ = worktree remove --force }
remove_lingering(exists_in_git, dir_exists) == exists_in_git /\ ~dir_exists

\* run_ok prune, then the not-a-directory check
ew_prune ==
    /\ pc = "ew_prune"
    /\ \E out \in Outcomes :
        /\ Call("ensure_worktree", "git worktree prune", <<>>, out)
        /\ IF out = "ok"
           THEN /\ registry' = GitWorktreePrune(registry, fs)
                /\ IF /\ path_exists(fs, worktree_path(op.branch))
                      /\ ~is_dir(fs, worktree_path(op.branch))
                   THEN Return("err")
                   ELSE Continue(IF remove_lingering(loc.exists_in_git, loc.dir_exists)
                                 THEN "ew_remove" ELSE "ew_add")
           ELSE /\ registry' = registry
                /\ Return("err")
    /\ UNCHANGED <<localTip, remoteTip, fs, sessions, op, loc, pre, nops, next_ext>>

\* let _ = run_ok("git", ["worktree", "remove", "--force", path])
ew_remove ==
    /\ pc = "ew_remove"
    /\ \E out \in May(CanWorktreeRemove(op.branch)) :
        /\ Call("ensure_worktree", "git worktree remove", op.branch, out)
        /\ IF out = "ok"
           THEN /\ registry' = registry \ {op.branch}
                /\ fs' = RmR(fs, worktree_path(op.branch))
           ELSE UNCHANGED <<registry, fs>>
    /\ Continue("ew_add")
    /\ UNCHANGED <<localTip, remoteTip, sessions, op, loc, pre, nops, next_ext>>

\* run_ok("git", ["worktree", "add", path, branch])?
ew_add ==
    /\ pc = "ew_add"
    /\ \E out \in May(CanWorktreeAdd(op.branch)) :
        /\ Call("ensure_worktree", "git worktree add", op.branch, out)
        /\ IF out = "ok"
           THEN /\ registry' = registry \cup {op.branch}
                /\ fs' = MkdirP(fs, worktree_path(op.branch))
                /\ Continue("lz_probe")
           ELSE /\ UNCHANGED <<registry, fs>>
                /\ Return("err")
    /\ UNCHANGED <<localTip, remoteTip, sessions, op, loc, pre, nops, next_ext>>

----------------------------------------------------------------------------
\* launch_zellij

\* zellij list-sessions: does a server answer
attach_unless_exec(out) == IF out # "exec" THEN "lz_attach" ELSE "lz_new"

\* zellij_ok: the probe ran and succeeded, else false (unwrap_or(false))
AfterProbe(out) == IF out = "ok" THEN "lz_attach" ELSE "lz_new"

lz_probe ==
    /\ pc = "lz_probe"
    /\ \E out \in Outcomes :
        /\ Call("launch_zellij", "zellij list-sessions", <<>>, out)
        /\ Continue(AfterProbe(out))
    /\ UNCHANGED <<world, op, loc, pre, nops, next_ext>>

cleanup_after_spawn_failure(ephemeral) ==
    IF ephemeral THEN Goto("del_session") ELSE Exit("err")

\* let status = launch_zellij(..)?: a launch that could not be executed
\* ends open_branch, before the cleanup
AfterSpawnFailure(ephemeral) == Exit("err")

\* the foreground process starts (the session exists while it runs) or
\* cannot be executed
Spawn(cmd, layout) ==
    \E out \in {"running", "exec"} :
        /\ log' = Append(log, [Entry("launch_zellij", cmd, session_name(op.branch), out)
                                  EXCEPT !.cwd = worktree_path(op.branch),
                                         !.layout = layout])
        /\ IF out = "running"
           THEN /\ sessions' = sessions \cup {session_name(op.branch)}
                /\ Continue("lz_wait")
           ELSE /\ sessions' = sessions
                /\ pc' = AfterSpawnFailure(op.ephemeral).pc
                /\ result' = AfterSpawnFailure(op.ephemeral).result

\* zellij attach -c <session>, in the worktree
lz_attach ==
    /\ pc = "lz_attach"
    /\ Spawn("zellij attach -c", "")
    /\ UNCHANGED <<localTip, remoteTip, registry, fs, op, loc, pre, nops, next_ext>>

\* zellij -n worktree -s <session>, in the worktree
lz_new ==
    /\ pc = "lz_new"
    /\ Spawn("zellij -n -s", ZELLIJ_LAYOUT)
    /\ UNCHANGED <<localTip, remoteTip, registry, fs, op, loc, pre, nops, next_ext>>

cleanup_skipped(ephemeral) == "open_ret"

\* if ephemeral { cleanup }
AfterLaunch(ephemeral) == IF ephemeral THEN "del_session" ELSE "open_ret"

\* the foreground process returns: the user detached (the session stays) or
\* quit (it is gone), or the process was interrupted; any exit status
lz_wait ==
    /\ pc = "lz_wait"
    /\ \E st \in {"success", "failure"}, stays \in BOOLEAN :
        /\ loc' = [loc EXCEPT !.status = st]
        /\ log' = [log EXCEPT ![Len(log)].out = IF st = "success" THEN "ok" ELSE "fail"]
        /\ sessions' = IF stays THEN sessions ELSE sessions \ {session_name(op.branch)}
    /\ Continue(AfterLaunch(op.ephemeral))
    /\ UNCHANGED <<localTip, remoteTip, registry, fs, op, pre, nops, next_ext>>

----------------------------------------------------------------------------
\* Teardown: delete_zellij_session, remove_worktree, delete_local_branch,
\* called by open_branch (ephemeral cleanup) and by rm_branch

\* let _ = delete_zellij_session(&session): every outcome is ignored
delete_zellij_session ==
    /\ pc = "del_session"
    /\ \E out \in Outcomes :
        /\ Call("delete_zellij_session", "zellij delete-session",
                session_name(op.branch), out)
        /\ sessions' = IF out = "ok" THEN sessions \ {session_name(op.branch)}
                       ELSE sessions
    /\ Continue("rw")
    /\ UNCHANGED <<localTip, remoteTip, registry, fs, op, loc, pre, nops, next_ext>>

open_keeps_branch(c, ok) ==
    IF c.cmd = "open" THEN Goto("open_ret")
    ELSE IF ~ok THEN Exit("err")
         ELSE IF c.delete_branch THEN Goto("del_branch") ELSE Exit("ok")

open_cleanup_stops_on_failure(c, ok) ==
    IF c.cmd = "open"
    THEN IF c.delete_branch /\ ok THEN Goto("del_branch") ELSE Goto("open_ret")
    ELSE IF ~ok THEN Exit("err")
         ELSE IF c.delete_branch THEN Goto("del_branch") ELSE Exit("ok")

rm_ignores_worktree_failure(c, ok) ==
    IF c.delete_branch THEN Goto("del_branch")
    ELSE IF c.cmd = "open" THEN Goto("open_ret") ELSE Exit("ok")

\* open_branch: let _ = remove_worktree(..); if delete_branch {..}
\* rm_branch:   remove_worktree(..)?;        if delete_branch_flag {..}
AfterRemoveWorktree(c, ok) ==
    IF c.cmd = "open"
    THEN IF c.delete_branch THEN Goto("del_branch") ELSE Goto("open_ret")
    ELSE IF ~ok THEN Exit("err")
         ELSE IF c.delete_branch THEN Goto("del_branch") ELSE Exit("ok")

rm_ignores_branch_failure(c, ok) ==
    IF c.cmd = "open" THEN Goto("open_ret") ELSE Exit("ok")

\* open_branch: let _ = delete_local_branch(branch)
\* rm_branch:   delete_local_branch(branch)?; Ok(())
AfterDeleteBranch(c, ok) ==
    IF c.cmd = "open" THEN Goto("open_ret")
    ELSE IF ok THEN Exit("ok") ELSE Exit("err")

\* remove_worktree: prune when the path is not on disk, else remove --force
remove_worktree ==
    /\ pc = "rw"
    /\ IF ~path_exists(fs, worktree_path(op.branch))
       THEN \E out \in Outcomes :
            /\ Call("remove_worktree", "git worktree prune", <<>>, out)
            /\ registry' = IF out = "ok" THEN GitWorktreePrune(registry, fs)
                           ELSE registry
            /\ fs' = fs
            /\ pc' = AfterRemoveWorktree(op, out = "ok").pc
            /\ result' = AfterRemoveWorktree(op, out = "ok").result
       ELSE \E out \in May(CanWorktreeRemove(op.branch)) :
            /\ Call("remove_worktree", "git worktree remove", op.branch, out)
            /\ IF out = "ok"
               THEN /\ registry' = registry \ {op.branch}
                    /\ fs' = RmR(fs, worktree_path(op.branch))
               ELSE UNCHANGED <<registry, fs>>
            /\ pc' = AfterRemoveWorktree(op, out = "ok").pc
            /\ result' = AfterRemoveWorktree(op, out = "ok").result
    /\ UNCHANGED <<localTip, remoteTip, sessions, op, loc, pre, nops, next_ext>>

\* run_ok("git", ["branch", "-D", branch])
delete_local_branch ==
    /\ pc = "del_branch"
    /\ \E out \in May(CanBranchDelete(op.branch)) :
        /\ Call("delete_local_branch", "git branch -D", op.branch, out)
        /\ localTip' = IF out = "ok" THEN [localTip EXCEPT ![op.branch] = NoRef]
                       ELSE localTip
        /\ pc' = AfterDeleteBranch(op, out = "ok").pc
        /\ result' = AfterDeleteBranch(op, out = "ok").result
    /\ UNCHANGED <<remoteTip, registry, fs, sessions, op, loc, pre, nops, next_ext>>

open_result_from_cleanup(status) ==
    IF status = "success"
       /\ \A i \in 1..Len(log) :
            log[i].fn \in {"delete_zellij_session", "remove_worktree",
                           "delete_local_branch"} => log[i].out = "ok"
    THEN "ok" ELSE "err"

\* if !status.success() { return Err(..) }  Ok(())
OpenResult(status) == IF status = "success" THEN "ok" ELSE "err"

open_ret ==
    /\ pc = "open_ret"
    /\ Return(OpenResult(loc.status))
    /\ UNCHANGED <<world, op, loc, log, pre, nops, next_ext>>

----------------------------------------------------------------------------
\* ls

\* run_ok("git", ["worktree", "prune"])?
ls_prune ==
    /\ pc = "ls_prune"
    /\ \E out \in Outcomes :
        /\ Call("ls", "git worktree prune", <<>>, out)
        /\ IF out = "ok"
           THEN /\ registry' = GitWorktreePrune(registry, fs)
                /\ Continue("ls_list")
           ELSE /\ registry' = registry
                /\ Return("err")
    /\ UNCHANGED <<localTip, remoteTip, fs, sessions, op, loc, pre, nops, next_ext>>

\* rest.strip_prefix("refs/heads/").or(rest)
BranchOfRef(ref) ==
    IF Len(ref) = 2 /\ ref[1] = "refs/heads/" THEN ref[2] ELSE ref

\* Option: <<>> is None, <<v>> is Some(v)
Flush(res, current_path, current_branch) ==
    IF current_path = <<>> THEN res
    ELSE Append(res, [path |-> current_path[1], branch |-> current_branch])

RECURSIVE ParseWorktrees(_, _, _, _, _)
ParseWorktrees(lines, i, res, current_path, current_branch) ==
    IF i > Len(lines) THEN Flush(res, current_path, current_branch)
    ELSE IF lines[i].key = "worktree"
         THEN ParseWorktrees(lines, i + 1, Flush(res, current_path, current_branch),
                             <<lines[i].val>>, <<>>)
         ELSE IF lines[i].key = "branch"
              THEN ParseWorktrees(lines, i + 1, res, current_path,
                                  <<BranchOfRef(lines[i].val)>>)
              ELSE ParseWorktrees(lines, i + 1, res, current_path, current_branch)

list_worktrees(lines) == ParseWorktrees(lines, 1, <<>>, <<>>, <<>>)

ls_after_sessions_always_sweeps(prune_sessions) == "ls_sweep"

\* if prune_sessions { prune_stale_sessions(..)? }  Ok(())
AfterSessions(prune_sessions) == IF prune_sessions THEN "ls_sweep" ELSE "done"

ls_list ==
    /\ pc = "ls_list"
    /\ \E out \in Outcomes :
        /\ Call("list_worktrees", "git worktree list", <<>>, out)
        /\ IF out = "ok"
           THEN /\ loc' = [loc EXCEPT !.worktrees = list_worktrees(Porcelain(registry))]
                /\ Continue("ls_sessions")
           ELSE /\ loc' = loc
                /\ Return("err")
    /\ UNCHANGED <<world, op, pre, nops, next_ext>>

\* the orders in which zellij may list a set of sessions
Listings(S) ==
    {q \in [1..Cardinality(S) -> S] : \A i, j \in 1..Cardinality(S) : q[i] = q[j] => i = j}

\* list_zellij_sessions().unwrap_or_default(): no list when zellij fails
ls_sessions ==
    /\ pc = "ls_sessions"
    /\ \E out \in Outcomes :
        /\ Call("list_zellij_sessions", "zellij list-sessions", <<>>, out)
        /\ \E names \in (IF out = "ok" THEN Listings(sessions) ELSE {<<>>}) :
            loc' = [loc EXCEPT !.sessions = names, !.todo = names]
    /\ pc' = AfterSessions(op.prune_sessions)
    /\ result' = IF AfterSessions(op.prune_sessions) = "done" THEN "ok" ELSE "none"
    /\ UNCHANGED <<world, op, pre, nops, next_ext>>

\* prune_stale_sessions: is session s one of ours
sweeps_any_session(s) == TRUE

is_candidate(s) == StartsWith(s, SESSION_PREFIX)

\* prune_stale_sessions: a directory directly inside worktree_base whose name,
\* with '/' replaced by '-', is the session's suffix
keep_session(f, s) ==
    /\ read_dir_ok(f, worktree_base)
    /\ \E p \in read_dir(f, worktree_base) :
        /\ is_dir(f, p)
        /\ Replace(file_name(p), "/", "-") = StripPrefix(s)

\* one turn of `for s in sessions` that deletes nothing
sweep_skip ==
    /\ pc = "ls_sweep"
    /\ loc.todo # <<>>
    /\ ~is_candidate(Head(loc.todo)) \/ keep_session(fs, Head(loc.todo))
    /\ loc' = [loc EXCEPT !.todo = Tail(loc.todo)]
    /\ UNCHANGED <<world, pc, op, log, result, pre, nops, next_ext>>

\* one turn that finds no directory: let _ = delete_zellij_session(s)
sweep_delete ==
    /\ pc = "ls_sweep"
    /\ loc.todo # <<>>
    /\ is_candidate(Head(loc.todo))
    /\ ~keep_session(fs, Head(loc.todo))
    /\ \E out \in Outcomes :
        /\ Call("prune_stale_sessions", "zellij delete-session", Head(loc.todo), out)
        /\ sessions' = IF out = "ok" THEN sessions \ {Head(loc.todo)} ELSE sessions
    /\ loc' = [loc EXCEPT !.todo = Tail(loc.todo)]
    /\ UNCHANGED <<localTip, remoteTip, registry, fs, pc, op, result, pre, nops, next_ext>>

sweep_done ==
    /\ pc = "ls_sweep"
    /\ loc.todo = <<>>
    /\ Return("ok")
    /\ UNCHANGED <<world, op, loc, log, pre, nops, next_ext>>

----------------------------------------------------------------------------
\* Out-of-band changes between two invocations: the user's own use of the
\* shell and of zellij, which make the three resources drift apart

Ext ==
    /\ pc = "idle"
    /\ next_ext < MaxExt
    /\ next_ext' = next_ext + 1
    /\ UNCHANGED <<pc, op, loc, log, result, nops, localTip, remoteTip>>

\* rm -rf <worktree>
ext_rmdir ==
    /\ Ext
    /\ \E b \in Branches :
        /\ is_dir(fs, worktree_path(b))
        /\ fs' = RmR(fs, worktree_path(b))
    /\ pre' = [pre EXCEPT !.fs = fs']
    /\ UNCHANGED <<registry, sessions>>

\* mkdir -p <worktree path>
ext_mkdir ==
    /\ Ext
    /\ \E b \in Branches :
        /\ ~path_exists(fs, worktree_path(b))
        /\ fs' = MkdirP(fs, worktree_path(b))
    /\ pre' = [pre EXCEPT !.fs = fs']
    /\ UNCHANGED <<registry, sessions>>

\* a file where the worktree should be
ext_touch ==
    /\ Ext
    /\ \E b \in Branches :
        /\ ~path_exists(fs, worktree_path(b))
        /\ fs' = [MkdirP(fs, SubSeq(worktree_path(b), 1, Len(worktree_path(b)) - 1))
                    EXCEPT ![worktree_path(b)] = "file"]
    /\ pre' = [pre EXCEPT !.fs = fs']
    /\ UNCHANGED <<registry, sessions>>

\* a session started by hand
ext_session ==
    /\ Ext
    /\ \E s \in SessionNames \ sessions : sessions' = sessions \cup {s}
    /\ pre' = [pre EXCEPT !.sessions = sessions']
    /\ UNCHANGED <<registry, fs>>

----------------------------------------------------------------------------

Next ==
    \/ Start
    \/ Finish
    \/ git_repo_root
    \/ create_dir_all
    \/ git_local_branch_exists
    \/ git_remote_branch_exists
    \/ git_fetch
    \/ git_branch
    \/ ew_known
    \/ ew_prune
    \/ ew_remove
    \/ ew_add
    \/ lz_probe
    \/ lz_attach
    \/ lz_new
    \/ lz_wait
    \/ delete_zellij_session
    \/ remove_worktree
    \/ delete_local_branch
    \/ open_ret
    \/ ls_prune
    \/ ls_list
    \/ ls_sessions
    \/ sweep_skip
    \/ sweep_delete
    \/ sweep_done
    \/ ext_rmdir
    \/ ext_mkdir
    \/ ext_touch
    \/ ext_session

Spec == Init /\ [][Next]_vars

TypeOK ==
    /\ localTip \in [Branches -> {NoRef, HeadCommit, RemoteCommit}]
    /\ registry \subseteq Branches
    /\ fs \in [Paths -> {"none", "dir", "file"}]
    /\ sessions \subseteq SessionNames
    /\ result \in {"none", "ok", "err"}
    /\ op \in Commands \cup {NoOp}

----------------------------------------------------------------------------
\* Vocabulary of the properties

CleanupFns == {"delete_zellij_session", "remove_worktree", "delete_local_branch"}

\* the foreground multiplexer process of this Open was launched and returned
MuxReturned == op.cmd = "open" /\ loc.status # "none"

\* every teardown call made so far returned success
CleanupOk == \A i \in 1..Len(log) : log[i].fn \in CleanupFns => log[i].out = "ok"

\* an ephemeral Open has run to its end, past the multiplexer's exit
EphemeralDone == pc = "done" /\ MuxReturned /\ op.ephemeral

Registered(reg, b) == b \in reg
OnDisk(f, b) == path_exists(f, worktree_path(b))

\* log positions of the calls made by function fn
CallsOf(fn) == {i \in 1..Len(log) : log[i].fn = fn}

\* C1: ephemeral round trip.  When Open(B, ephemeral) has run with the
\* multiplexer returned and every cleanup call succeeding, nothing is left at
\* the derived path of B, no session session_name(B) is left, and local
\* branch B exists exactly when delete-branch was not set.
C1_EphemeralRoundTrip ==
    (EphemeralDone /\ CleanupOk) =>
        /\ ~OnDisk(fs, op.branch)
        /\ session_name(op.branch) \notin sessions
        /\ op.delete_branch => localTip[op.branch] = NoRef
        /\ ~op.delete_branch => localTip[op.branch] # NoRef

C1_Witness ==
    /\ EphemeralDone /\ CleanupOk
    /\ op.branch = BrAB /\ op.delete_branch
    /\ CallsOf("delete_local_branch") # {}
    /\ localTip[BrAB] = NoRef

\* C2: the stale-session sweep never passes session_name(B) to a session
\* deletion while the derived worktree directory of B exists on disk.
C2_SweepSparesLiveWorktrees ==
    \A i \in CallsOf("prune_stale_sessions") :
        \A b \in Branches :
            is_dir(fs, worktree_path(b)) => log[i].arg # session_name(b)

\* C3 as stated, in the case most favourable to it (every cleanup call
\* succeeded): after an ephemeral Open and the multiplexer's exit, the worktree
\* of B (registered, on disk) and the session of B exist exactly as they did
\* before the call.
C3_EphemeralRestoresPreState ==
    (EphemeralDone /\ CleanupOk) =>
        /\ Registered(registry, op.branch) = Registered(pre.registry, op.branch)
        /\ OnDisk(fs, op.branch) = OnDisk(pre.fs, op.branch)
        /\ (session_name(op.branch) \in sessions)
             = (session_name(op.branch) \in pre.sessions)

PreAbsent ==
    /\ ~Registered(pre.registry, op.branch)
    /\ ~OnDisk(pre.fs, op.branch)
    /\ session_name(op.branch) \notin pre.sessions

\* C3 amended: after an ephemeral Open whose cleanup calls all succeeded, the
\* worktree of B is neither registered nor on disk and the session of B does
\* not exist, whatever existed before; so the state equals the state before
\* the call exactly when neither worktree nor session existed before.
C3_EphemeralLeavesNothing ==
    (EphemeralDone /\ CleanupOk) =>
        /\ ~Registered(registry, op.branch)
        /\ ~OnDisk(fs, op.branch)
        /\ session_name(op.branch) \notin sessions
        /\ PreAbsent <=>
            /\ Registered(registry, op.branch) = Registered(pre.registry, op.branch)
            /\ OnDisk(fs, op.branch) = OnDisk(pre.fs, op.branch)
            /\ (session_name(op.branch) \in sessions)
                 = (session_name(op.branch) \in pre.sessions)

\* an ephemeral Open on a worktree and a session that were there before
C3_Witness ==
    /\ EphemeralDone /\ CleanupOk
    /\ Registered(pre.registry, op.branch)
    /\ is_dir(pre.fs, worktree_path(op.branch))
    /\ session_name(op.branch) \in pre.sessions
    /\ ~Registered(registry, op.branch)

\* C4: once the multiplexer has returned, Open's result is its exit status,
\* whatever the cleanup calls did.
C4_ResultIsMuxStatus ==
    (pc = "done" /\ MuxReturned) => (result = "ok" <=> loc.status = "success")

C4_Witness ==
    /\ pc = "done" /\ MuxReturned
    /\ loc.status = "success" /\ result = "ok"
    /\ \E i \in CallsOf("remove_worktree") : log[i].out = "fail"
    /\ \E i \in CallsOf("delete_zellij_session") : log[i].out = "exec"

\* the log from position k on, as the sequence of the functions called
FnsFrom(k) == [i \in 1..(Len(log) - k + 1) |-> log[i + k - 1].fn]

\* C5: Remove deletes the session, then removes the worktree, then deletes
\* the branch.  A failed session deletion neither stops it nor fails it; a
\* failed worktree removal fails it and the branch deletion is not attempted;
\* the branch deletion is attempted only with delete_branch set and after a
\* successful worktree removal, and its failure fails Remove.
C5_RemoveOrder ==
    (op.cmd = "rm" /\ Len(log) >= 1 /\ log[1].out = "ok") =>
        /\ FnsFrom(2) \in {<<>>,
                           <<"delete_zellij_session">>,
                           <<"delete_zellij_session", "remove_worktree">>,
                           <<"delete_zellij_session", "remove_worktree",
                             "delete_local_branch">>}
        /\ pc = "done" => Len(log) >= 3
        /\ Len(log) = 4 => op.delete_branch /\ log[3].out = "ok"
        /\ (pc = "done" /\ log[3].out # "ok") => (result = "err" /\ Len(log) = 3)
        /\ (pc = "done" /\ log[3].out = "ok" /\ ~op.delete_branch)
             => (result = "ok" /\ Len(log) = 3)
        /\ (pc = "done" /\ log[3].out = "ok" /\ op.delete_branch)
             => (Len(log) = 4 /\ (result = "ok" <=> log[4].out = "ok"))

C5_Witness ==
    /\ op.cmd = "rm" /\ pc = "done" /\ result = "ok"
    /\ Len(log) = 4
    /\ log[2].out = "exec"
    /\ log[4].fn = "delete_local_branch"

\* log position of the foreground multiplexer call, 0 when there is none
LaunchAt ==
    LET at == {i \in CallsOf("launch_zellij") : log[i].cmd # "zellij list-sessions"}
    IN IF at = {} THEN 0 ELSE CHOOSE i \in at : TRUE

\* C6: in an ephemeral Open, no cleanup call is made before the multiplexer
\* has returned; once it has, with any exit status, the session deletion, the
\* worktree removal and (only with delete-branch) the branch deletion are
\* each attempted, in that order, whatever the earlier ones returned.
C6_CleanupOrder ==
    op.cmd = "open" =>
        /\ \A i \in 1..Len(log) :
            log[i].fn \in CleanupFns =>
                /\ op.ephemeral
                /\ MuxReturned
                /\ LaunchAt # 0 /\ LaunchAt < i
                /\ log[LaunchAt].out \in {"ok", "fail"}
        /\ EphemeralDone =>
            FnsFrom(LaunchAt + 1) =
                IF op.delete_branch
                THEN <<"delete_zellij_session", "remove_worktree", "delete_local_branch">>
                ELSE <<"delete_zellij_session", "remove_worktree">>

C6_Witness ==
    /\ EphemeralDone /\ op.delete_branch
    /\ loc.status = "failure"
    /\ log[LaunchAt + 1].out = "exec"
    /\ log[LaunchAt + 2].out = "fail"
    /\ log[LaunchAt + 3].fn = "delete_local_branch"

\* the calls of ensure_branch_exists that change the repository
Fetches == {i \in CallsOf("ensure_branch_exists") : log[i].cmd = "git fetch"}
Creates == {i \in CallsOf("ensure_branch_exists") : log[i].cmd = "git branch"}

\* ensure_branch_exists has just returned Ok
BranchEnsured == op.cmd = "open" /\ pc = "ew_known"

\* C7: ensure-branch takes one of three paths, in this priority: B exists
\* locally: no mutating call; else B exists on the remote: a fetch into local
\* B, whose tip is then the remote tip, and no branch from HEAD; else a new
\* local B at HEAD.  After the step succeeds local B exists.
C7_EnsureBranchPaths ==
    op.cmd = "open" =>
        /\ pre.localTip[op.branch] # NoRef => (Fetches = {} /\ Creates = {})
        /\ (pre.localTip[op.branch] = NoRef /\ remoteTip[op.branch] # NoRef)
             => Creates = {}
        /\ (pre.localTip[op.branch] = NoRef /\ remoteTip[op.branch] = NoRef)
             => Fetches = {}
        /\ BranchEnsured =>
            /\ localTip[op.branch] # NoRef
            /\ \A b \in Branches \ {op.branch} : localTip[b] = pre.localTip[b]
            /\ localTip[op.branch] =
                IF pre.localTip[op.branch] # NoRef THEN pre.localTip[op.branch]
                ELSE IF remoteTip[op.branch] # NoRef THEN remoteTip[op.branch]
                ELSE HeadCommit
            /\ Cardinality(Fetches) + Cardinality(Creates) =
                IF pre.localTip[op.branch] # NoRef THEN 0 ELSE 1

\* a branch that was on the remote only has been fetched
C7_Witness ==
    /\ BranchEnsured
    /\ pre.localTip[op.branch] = NoRef
    /\ localTip[op.branch] = RemoteCommit
    /\ Fetches # {}

\* the calls of ensure_worktree that change the repository
EwMutations == {i \in CallsOf("ensure_worktree") : log[i].cmd # "git worktree list"}

\* ensure_worktree has just returned Ok
WorktreeEnsured == op.cmd = "open" /\ pc = "lz_probe"

\* the worktree of B was registered and on disk when the invocation started
\* (open_branch changes neither before it calls ensure_worktree)
PreEnsured ==
    /\ Registered(pre.registry, op.branch)
    /\ is_dir(pre.fs, worktree_path(op.branch))

\* C8: ensure_worktree is idempotent.  A call that succeeds leaves the path
\* registered and a directory; a call made in such a state issues no prune,
\* no remove and no add, and leaves the registry and the filesystem as they
\* were.
C8_EnsureWorktreeIdempotent ==
    /\ WorktreeEnsured =>
        /\ Registered(registry, op.branch)
        /\ is_dir(fs, worktree_path(op.branch))
    /\ (op.cmd = "open" /\ PreEnsured) =>
        /\ EwMutations = {}
        /\ pc \in {"ew_known", "lz_probe"} =>
            /\ registry = pre.registry
            /\ \A b \in Branches : fs[worktree_path(b)] = pre.fs[worktree_path(b)]

\* the second of two Opens of the same worktree, past ensure_worktree
C8_Witness ==
    /\ WorktreeEnsured /\ PreEnsured
    /\ nops = 2 /\ next_ext = 0
    /\ Cardinality(CallsOf("ensure_worktree")) = 1

\* the worktree of B was registered, its directory gone, when the invocation
\* started
PreStale ==
    /\ Registered(pre.registry, op.branch)
    /\ ~OnDisk(pre.fs, op.branch)

\* C9: stale-state repair.  With B registered and its directory gone,
\* ensure_worktree does not return Ok on the old entry: it prunes, then adds,
\* and when it returns Ok the path is registered and a directory.
C9_StaleRepair ==
    (op.cmd = "open" /\ PreStale) =>
        /\ \A j \in CallsOf("ensure_worktree") :
            log[j].cmd = "git worktree add" =>
                \E i \in CallsOf("ensure_worktree") :
                    i < j /\ log[i].cmd = "git worktree prune" /\ log[i].out = "ok"
        /\ WorktreeEnsured =>
            /\ \E j \in CallsOf("ensure_worktree") :
                log[j].cmd = "git worktree add" /\ log[j].out = "ok"
            /\ Registered(registry, op.branch)
            /\ is_dir(fs, worktree_path(op.branch))

C9_Witness ==
    /\ WorktreeEnsured /\ PreStale
    /\ Registered(registry, op.branch)
    /\ is_dir(fs, worktree_path(op.branch))

\* C10: List passes no session without the prefix "wt-" to a session
\* deletion, whatever the prune flags.
C10_SweepOnlyPrefixed ==
    op.cmd = "ls" =>
        \A i \in 1..Len(log) :
            log[i].cmd = "zellij delete-session" => StartsWith(log[i].arg, SESSION_PREFIX)

\* a sweep that met a foreign session, deleted another one and left it
C10_Witness ==
    /\ op.cmd = "ls" /\ pc = "done" /\ op.prune_sessions
    /\ \E i \in 1..Len(loc.sessions) : loc.sessions[i] = ForeignSession
    /\ CallsOf("prune_stale_sessions") # {}
    /\ ForeignSession \in sessions

\* sessions of the listing that List passed to a session deletion
SweptSessions == {log[i].arg : i \in CallsOf("prune_stale_sessions")}

\* the flat name fragments of the worktrees List observed: the branch of
\* each, with '/' replaced by '-'
ObservedFragments ==
    {Replace(loc.worktrees[i].branch[1], "/", "-") :
        i \in {j \in 1..Len(loc.worktrees) : loc.worktrees[j].branch # <<>>}}

\* List with prune-sessions has gone through the whole listing
SweepDone == op.cmd = "ls" /\ op.prune_sessions /\ pc = "done" /\ result = "ok"

\* C11: List with prune-sessions passes an observed session to the session
\* deletion if and only if its name begins with the prefix and the rest of
\* the name is the flat name fragment of no observed worktree.
C11_SweepDeletesExactlyUnmatched ==
    SweepDone =>
        \A i \in 1..Len(loc.sessions) :
            (loc.sessions[i] \in SweptSessions) <=>
                /\ StartsWith(loc.sessions[i], SESSION_PREFIX)
                /\ StripPrefix(loc.sessions[i]) \notin ObservedFragments

\* before the call nothing of the operation's branch existed: no local
\* branch, no worktree registered or on disk, no session
PreNever == PreAbsent /\ pre.localTip[op.branch] = NoRef

RemoveDone == op.cmd = "rm" /\ pc = "done"

\* C12 as stated: Remove of a branch that was never created ends in an
\* error, with and without delete_branch.
C12_RemoveNeverCreatedFails == (RemoveDone /\ PreNever) => result = "err"

\* C12 amended: Remove of a branch that was never created finds no worktree
\* path and runs a registry prune in place of the forced removal.  With
\* delete_branch it ends in an error, the branch deletion having nothing to
\* delete; without delete_branch it ends in success exactly when the
\* repository root query and the registry prune succeeded.
C12_RemoveNeverCreated ==
    (RemoveDone /\ PreNever) =>
        /\ \A i \in CallsOf("remove_worktree") : log[i].cmd = "git worktree prune"
        /\ \A i \in CallsOf("delete_local_branch") : log[i].out # "ok"
        /\ op.delete_branch => result = "err"
        /\ ~op.delete_branch =>
            (result = "ok" <=>
                /\ CallsOf("remove_worktree") # {}
                /\ \A i \in CallsOf("git_repo_root") \cup CallsOf("remove_worktree") :
                       log[i].out = "ok")

\* a Remove of a never created branch that ended in success
C12_Witness ==
    /\ RemoveDone /\ PreNever /\ ~op.delete_branch
    /\ result = "ok"
    /\ \E i \in CallsOf("delete_zellij_session") : log[i].out = "fail"

\* C13: in every operation a tool call that could not be executed at all is
\* the last step of the operation, and the operation returns an error.
C13_ExecFailureAborts ==
    \A i \in 1..Len(log) :
        log[i].out = "exec" => (i = Len(log) /\ pc = "done" /\ result = "err")

\* log positions of the best-effort steps: every session deletion (Remove,
\* ephemeral cleanup, prune pass) and, in Open, the worktree removal and the
\* branch deletion of the ephemeral cleanup
BestEffort ==
    {i \in 1..Len(log) :
        \/ log[i].fn \in {"delete_zellij_session", "prune_stale_sessions"}
        \/ op.cmd = "open" /\ log[i].fn \in CleanupFns}

\* C14: whenever a best-effort step fails, the program prints a warning for
\* that failure before it goes on.
C14_BestEffortFailuresLogged ==
    \A i \in BestEffort : log[i].out # "ok" => log[i].warned

\* Open is at the session launch: about to start the foreground multiplexer
\* process, or waiting for it
Launching == op.cmd = "open" /\ pc \in {"lz_attach", "lz_new", "lz_wait"}

\* directory without registration when the invocation started
PreUnregisteredDir ==
    /\ ~Registered(pre.registry, op.branch)
    /\ is_dir(pre.fs, worktree_path(op.branch))

\* C15: whenever Open(B) is at the session launch, the local branch B exists
\* and the worktree path of B is registered and a directory, from every
\* starting state.
C15_LaunchOnEnsuredState ==
    Launching =>
        /\ localTip[op.branch] # NoRef
        /\ Registered(registry, op.branch)
        /\ is_dir(fs, worktree_path(op.branch))

\* a launch reached from a directory without registration
C15_Witness ==
    /\ Launching /\ pc = "lz_new"
    /\ PreUnregisteredDir
    /\ pre.localTip[op.branch] = NoRef

----------------------------------------------------------------------------
\* session_name as a function: a second specification that draws two branch
\* names and calls session_name on them, twice

\* longest branch name drawn
MaxNameLen == 2

\* characters of the names drawn: two letters, the separator, the flat one
NameChars == {"a", "x", "/", "-"}

Names == UNION {[1..n -> NameChars] : n \in 1..MaxNameLen}

InitNames ==
    /\ localTip = [b \in Branches |-> NoRef]
    /\ remoteTip = [b \in Branches |-> NoRef]
    /\ registry = {}
    /\ fs = [p \in Paths |-> IF p = repo_root THEN "dir" ELSE "none"]
    /\ sessions = {}
    /\ pc = "names"
    /\ op = NoOp
    /\ \E a \in Names, b \in Names :
        loc = [a |-> a, b |-> b, sa |-> <<>>, sb |-> <<>>, sa2 |-> <<>>]
    /\ log = <<>>
    /\ result = "none"
    /\ pre = Snapshot
    /\ nops = 0
    /\ next_ext = 0

\* let session = session_name(branch), for both names
call_session_name ==
    /\ pc = "names"
    /\ loc' = [loc EXCEPT !.sa = session_name(loc.a), !.sb = session_name(loc.b)]
    /\ pc' = "named"
    /\ UNCHANGED <<world, op, log, result, pre, nops, next_ext>>

\* a later call on the first name
call_session_name_again ==
    /\ pc = "named"
    /\ loc' = [loc EXCEPT !.sa2 = session_name(loc.a)]
    /\ pc' = "named_again"
    /\ UNCHANGED <<world, op, log, result, pre, nops, next_ext>>

NextNames == call_session_name \/ call_session_name_again

SpecNames == InitNames /\ [][NextNames]_vars

\* the two names are equal up to the choice of '/' or '-' at each position
SameUpToSeparator(a, b) ==
    /\ Len(a) = Len(b)
    /\ \A i \in 1..Len(a) : a[i] = b[i] \/ {a[i], b[i]} \subseteq {"/", "-"}

FeatureX == <<"f", "e", "a", "t", "u", "r", "e", "/", "x">>
WtFeatureX == <<"w", "t", "-", "f", "e", "a", "t", "u", "r", "e", "-", "x">>

\* C16: session_name returns "wt-" followed by the branch name with every
\* '/' replaced by '-', the same on every call ("feature/x" gives
\* "wt-feature-x"); two branch names map to the same session name exactly
\* when they differ at most in '/' versus '-' at some positions.
C16_SessionNameFunction ==
    /\ session_name(FeatureX) = WtFeatureX
    /\ pc \in {"named", "named_again"} =>
        /\ Len(loc.sa) = 3 + Len(loc.a)
        /\ loc.sa[1] = "w" /\ loc.sa[2] = "t" /\ loc.sa[3] = "-"
        /\ \A i \in 1..Len(loc.a) :
            loc.sa[3 + i] = (IF loc.a[i] = "/" THEN "-" ELSE loc.a[i])
        /\ (loc.sa = loc.sb) <=> SameUpToSeparator(loc.a, loc.b)
    /\ pc = "named_again" => loc.sa2 = loc.sa

\* two distinct names, one with '/' where the other has '-', named alike
C16_Witness ==
    /\ pc = "named_again"
    /\ loc.a # loc.b
    /\ \E i \in 1..Len(loc.a) : loc.a[i] = "/"
    /\ loc.sa = loc.sb

----------------------------------------------------------------------------
\* the commands ensure_worktree issued after its registry query, in order
\* (its calls are consecutive in the log)
EwCmds ==
    IF EwMutations = {} THEN <<>>
    ELSE LET k == CHOOSE i \in EwMutations : \A j \in EwMutations : i <= j
         IN [i \in 1..Cardinality(EwMutations) |-> log[k + i - 1].cmd]

IsPrefix(s, t) == Len(s) <= Len(t) /\ s = SubSeq(t, 1, Len(s))

\* ensure_worktree of this Open has returned Ok
EwReturnedOk ==
    /\ op.cmd = "open"
    /\ \/ pc = "lz_probe"
       \/ CallsOf("launch_zellij") # {}

PreRegistered == Registered(pre.registry, op.branch)
PreIsDir == is_dir(pre.fs, worktree_path(op.branch))

PruneRemoveAdd == <<"git worktree prune", "git worktree remove", "git worktree add">>
PruneAdd == <<"git worktree prune", "git worktree add">>

\* C17 as stated: no action when registered with directory; only an add
\* when neither; prune, forced remove, add in the two half-present cases.
C17_SpecifiedSequences ==
    EwReturnedOk =>
        EwCmds = CASE PreRegistered /\ PreIsDir -> <<>>
                   [] ~PreRegistered /\ ~PreIsDir -> <<"git worktree add">>
                   [] OTHER -> PruneRemoveAdd

\* the sequence ensure_worktree issues in each observed case
EwSequence ==
    CASE PreRegistered /\ PreIsDir -> <<>>
      [] PreRegistered /\ ~PreIsDir -> PruneRemoveAdd
      [] OTHER -> PruneAdd

\* C17 amended: (registered, directory present) issues no action;
\* (registered, directory absent) issues prune, forced remove, add; the two
\* cases without registration, directory present or not, issue prune, add
\* and no forced remove.  A failing step ends the sequence early.
C17_EnsureWorktreeSequences ==
    op.cmd = "open" =>
        /\ IsPrefix(EwCmds, EwSequence)
        /\ EwReturnedOk => EwCmds = EwSequence

\* ensure_worktree returned Ok on a directory without registration, after a
\* prune and an add
C17_Witness ==
    /\ EwReturnedOk /\ pc = "lz_probe"
    /\ PreUnregisteredDir
    /\ EwCmds = PruneAdd

----------------------------------------------------------------------------
\* ensure_branch_exists returned an error: a query could not be executed, or
\* the fetch or the branch creation failed (a query answering "no" is no
\* failure)
EbFailed ==
    \E i \in CallsOf("ensure_branch_exists") :
        \/ log[i].out = "exec"
        \/ log[i].cmd \in {"git fetch", "git branch"} /\ log[i].out # "ok"

\* ensure_worktree returned an error: its registry query, its prune or its
\* add failed, or after the prune the path was there and no directory (the
\* forced remove cannot fail it)
EwFailed ==
    \E i \in CallsOf("ensure_worktree") :
        \/ log[i].cmd # "git worktree remove" /\ log[i].out # "ok"
        \/ /\ log[i].cmd = "git worktree prune"
           /\ pre.fs[worktree_path(op.branch)] = "file"

\* calls of the pipeline behind ensure_branch_exists / behind ensure_worktree
LaunchAndCleanup ==
    CallsOf("launch_zellij") \cup UNION {CallsOf(f) : f \in CleanupFns}

\* C18: a failed ensure-branch step is followed by no worktree prune, remove
\* or add and by no launch; a failed ensure-worktree step is followed by no
\* launch and no cleanup action; in both cases Open returns an error.
C18_MandatoryStepsAbort ==
    op.cmd = "open" =>
        /\ EbFailed =>
            /\ pc = "done" /\ result = "err"
            /\ CallsOf("ensure_worktree") = {}
            /\ LaunchAndCleanup = {}
        /\ EwFailed =>
            /\ pc = "done" /\ result = "err"
            /\ LaunchAndCleanup = {}
            /\ \A i \in CallsOf("ensure_worktree"), j \in 1..Len(log) :
                (log[i].cmd # "git worktree remove" /\ log[i].out # "ok") => j <= i

\* an ephemeral Open whose worktree add failed after the branch was fetched
C18_Witness ==
    /\ op.cmd = "open" /\ op.ephemeral /\ EwFailed
    /\ Fetches # {}
    /\ log[Len(log)].cmd = "git worktree add"

----------------------------------------------------------------------------
\* the list-sessions probe of launch_zellij, and the foreground calls
Probes == {i \in CallsOf("launch_zellij") : log[i].cmd = "zellij list-sessions"}
Spawns == CallsOf("launch_zellij") \ Probes

\* C19: an Open that has passed the launch step has made exactly one
\* foreground multiplexer call, right after the probe: an attach-or-create
\* when the probe ran and succeeded, else a new session with the layout
\* "worktree"; either one names the derived session and runs in the derived
\* worktree path; never both.
C19_OneLaunch ==
    op.cmd = "open" =>
        /\ Cardinality(Probes) <= 1 /\ Cardinality(Spawns) <= 1
        /\ (Probes # {} /\ pc \notin {"lz_attach", "lz_new"}) => Cardinality(Spawns) = 1
        /\ \A i \in Spawns :
            /\ i - 1 \in Probes
            /\ log[i].cmd = (IF log[i - 1].out = "ok" THEN "zellij attach -c"
                             ELSE "zellij -n -s")
            /\ log[i].layout = (IF log[i - 1].out = "ok" THEN "" ELSE ZELLIJ_LAYOUT)
            /\ log[i].arg = session_name(op.branch)
            /\ log[i].cwd = worktree_path(op.branch)

\* the probe could not be executed and a new session was started
C19_Witness ==
    /\ op.cmd = "open" /\ pc = "lz_wait"
    /\ \E i \in Spawns :
        /\ log[i - 1].out = "exec"
        /\ log[i].cmd = "zellij -n -s"
        /\ log[i].layout = "worktree"

----------------------------------------------------------------------------
\* the tool calls that only read
ObservingCmds ==
    {"git rev-parse --show-toplevel", "git worktree list", "zellij list-sessions"}

PlainList == op.cmd = "ls" /\ ~op.prune_worktrees /\ ~op.prune_sessions

\* C20: List without prune-worktrees and without prune-sessions issues only
\* observing calls and leaves local branches, registry, worktree directories
\* and sessions as they were, whether or not the observing calls succeed.
C20_PlainListObserves ==
    PlainList =>
        /\ \A i \in 1..Len(log) : log[i].cmd \in ObservingCmds
        /\ localTip = pre.localTip
        /\ registry = pre.registry
        /\ fs = pre.fs
        /\ sessions = pre.sessions

\* a plain List that ended with a stale session around and a failed
\* session listing
C20_Witness ==
    /\ PlainList /\ pc = "done" /\ result = "ok"
    /\ OrphanSession \in sessions
    /\ registry # {}
    /\ \E i \in CallsOf("list_zellij_sessions") : log[i].out = "fail"

----------------------------------------------------------------------------
----------------------------------------------------------------------------
\* the foreground multiplexer call of this Open could not be executed
LaunchNotExecuted == op.cmd = "open" /\ \E i \in Spawns : log[i].out = "exec"

\* C22: when the multiplexer launch of Open cannot be executed, Open returns
\* an error with no cleanup action attempted, also with ephemeral set, and
\* the branch and the worktree stay in place.
C22_FailedLaunchSkipsCleanup ==
    LaunchNotExecuted =>
        /\ pc = "done" /\ result = "err"
        /\ log[Len(log)].fn = "launch_zellij"
        /\ \A f \in CleanupFns : CallsOf(f) = {}
        /\ localTip[op.branch] # NoRef
        /\ Registered(registry, op.branch)
        /\ is_dir(fs, worktree_path(op.branch))

\* an ephemeral Open that created branch and worktree and could not launch
C22_Witness ==
    /\ LaunchNotExecuted /\ op.ephemeral /\ op.delete_branch
    /\ pre.localTip[op.branch] = NoRef
    /\ ~Registered(pre.registry, op.branch)
    /\ Creates # {}
    /\ Registered(registry, op.branch)

====
